---- MODULE Spec2Model ----
(***************************************************************************)
(* falcon-sentry: the Sentry wrapper (context store, capture wrappers,     *)
(* error handler) and the SentryMiddleware request lifecycle of            *)
(* src/falcon_sentry/sentry.py, as a state machine.                        *)
(***************************************************************************)
EXTENDS Integers, Sequences, FiniteSets, TLC

VARIABLES
    user_context_loader,  \* Sentry.user_context_loader (constructor argument)
    body_context_loader,  \* Sentry.body_context_loader (constructor argument)
    built_by,             \* how the registered middleware was built:
                          \* "Sentry.middleware" or "SentryMiddleware"
    transport,            \* Sentry.client: "reliable", or "failing" when its
                          \* capture calls may raise
    context,              \* Sentry.client.context: the raven context data
    last_event_id,        \* Sentry.last_event_id (Unset until first assigned)
    pc,                   \* where the framework is in the request lifecycle
    reqno,                \* number of requests started on this instance
    ncalls,               \* application calls made on the Sentry object so far
    resp_headers,         \* headers of the current request's response object
    captures,             \* transport capture calls made during this request
    handled,              \* the error handler's call of this request, if any
    logged,               \* exceptions logged by _log_exception, this request
    responded,            \* how process_response of this request ended
    http_calls,           \* data of the last two Sentry.http_context calls
                          \* made since the context was last cleared
    inflight              \* the requests in flight on concurrent threads

vars == <<user_context_loader, body_context_loader, built_by, transport,
          context, last_event_id, pc, reqno, ncalls, resp_headers, captures,
          handled, logged, responded, http_calls, inflight>>

(***************************************************************************)
(* Bounds of the model.                                                    *)
(***************************************************************************)
MaxRequests == 2
MaxCalls == 2
\* Application calls made so far in the runs that go on to the error handler.
MaxCallsBeforeError == 1
\* Captures one concurrent request makes.
MaxThreadCaptures == 1

(***************************************************************************)
(* Python values.                                                          *)
(***************************************************************************)
None == "None"
\* An instance attribute that was never assigned: reading it raises
\* AttributeError.
Unset == "<unset>"
\* The empty dict {}.
EmptyDict == [k \in {} |-> None]

\* Python truthiness of a value that is None or a string.
Truthy(v) == v # None /\ v # ""

\* Update with the receiver's value kept on a shared key (setdefault-style).
UpdateKeepsOld(d, other) ==
    [k \in (DOMAIN d) \cup (DOMAIN other) |->
        IF k \in DOMAIN d THEN d[k] ELSE other[k]]

\* d.update(other) on a copy of d: other's value wins on a shared key.
Update(d, other) ==
    [k \in (DOMAIN d) \cup (DOMAIN other) |->
        IF k \in DOMAIN other THEN other[k] ELSE d[k]]

(***************************************************************************)
(* Exceptions handed to the error handler.  An exception object is a       *)
(* record: id is the object's identity, bases the falcon classes it is an  *)
(* instance of, code its .code attribute (<<>> for None, <<n>> for n),     *)
(* dict what its to_dict() returns, args the arguments it was built with.  *)
(***************************************************************************)
NoCode == <<>>

Exc(id, cls, bases, code, dict, args) ==
    [id |-> id, cls |-> cls, bases |-> bases, code |-> code,
     dict |-> dict, args |-> args]

NotFoundDict == [title |-> "Not Found"]
ClashDict == [title |-> "Server Error", id |-> "7"]

Errors ==
    { Exc("s1", "HTTPStatus", {"HTTPStatus"}, NoCode, EmptyDict, <<>>),
      \* a class deriving from both falcon.HTTPStatus and falcon.HTTPError
      Exc("s2", "StatusAndError", {"HTTPStatus", "HTTPError"}, <<503>>,
          ClashDict, <<>>),
      Exc("h1", "HTTPError", {"HTTPError"}, NoCode, NotFoundDict, <<>>),
      Exc("h2", "HTTPError", {"HTTPError"}, <<0>>, NotFoundDict, <<>>),
      Exc("h3", "HTTPError", {"HTTPError"}, <<302>>, NotFoundDict, <<>>),
      Exc("h4", "HTTPError", {"HTTPError"}, <<404>>, NotFoundDict, <<>>),
      Exc("h5", "HTTPError", {"HTTPError"}, <<499>>, ClashDict, <<>>),
      Exc("h6", "HTTPError", {"HTTPError"}, <<500>>, ClashDict, <<>>),
      Exc("h7", "HTTPError", {"HTTPError"}, <<503>>, NotFoundDict, <<>>),
      Exc("v1", "ValueError", {}, NoCode, EmptyDict, <<"boom">>),
      Exc("v2", "KeyError", {}, NoCode, EmptyDict, <<>>),
      Exc("v3", "OSError", {}, NoCode, EmptyDict, <<"2", "No such file">>) }

\* The route params falcon passes to the handler.
RouteParams ==
    { EmptyDict, [id |-> "42"], [id |-> "42", title |-> "widgets"] }

\* isinstance(ex, falcon.X)
IsInstance(ex, base) == base \in ex.bases

\* str(ex) of a BaseException: "" without arguments, the argument itself with
\* one, the repr of the argument tuple with several.
RECURSIVE ReprItems(_)
ReprItems(args) ==
    IF Len(args) = 0 THEN ""
    ELSE "'" \o Head(args) \o "'" \o
         (IF Len(args) = 1 THEN "" ELSE ", " \o ReprItems(Tail(args)))

\* repr(ex) in place of str(ex).
StrAsRepr(ex) == ex.cls \o "(" \o ReprItems(ex.args) \o ")"

Str(ex) ==
    IF Len(ex.args) = 0 THEN ""
    ELSE IF Len(ex.args) = 1 THEN ex.args[1]
    ELSE "(" \o ReprItems(ex.args) \o ")"

\* The code taken to be 500 whatever ex.code is.
CodeAlways500(ex) == 500

\* ex.code or 500
CodeOr500(ex) ==
    IF ex.code = NoCode \/ ex.code[1] = 0 THEN 500 ELSE ex.code[1]

\* The severity with the comparison off by one (code <= 500).
LevelOffByOne(code) == IF code <= 500 THEN "errors" ELSE "fatal"

\* 'errors' if code < 500 else 'fatal'
Level(code) == IF code < 500 THEN "errors" ELSE "fatal"

\* falcon.HTTPInternalServerError(title='Unknown Error', description=str(ex)):
\* a new object, not ex.
HTTPInternalServerError(ex) ==
    Exc("new(" \o ex.id \o ")", "HTTPInternalServerError", {"HTTPError"},
        NoCode,
        [title |-> "Unknown Error", description |-> Str(ex)],
        <<>>)

\* What one call of error_handler(ex, req, resp, params) does, for the handler
\* built by get_error_handler(only_500): calls is the sequence of
\* self.client.captureException(level=, extra=) calls it makes, exit how it
\* ends ("raise" or "return"), exc the exception it raises, params the route
\* params mapping as the call leaves it.
Outcome(calls, exit, exc, params) ==
    [calls |-> calls, exit |-> exit, exc |-> exc, params |-> params]

\* error_handler with the HTTPError test made before the HTTPStatus test.
error_handler_HTTPErrorFirst(only_500, ex, params) ==
    IF IsInstance(ex, "HTTPError") THEN
        IF only_500 /\ CodeOr500(ex) < 500 THEN
            Outcome(<<>>, "raise", ex, params)
        ELSE
            Outcome(<<[level |-> Level(CodeOr500(ex)),
                       extra |-> Update(ex.dict, params)]>>,
                    "raise", ex, params)
    ELSE IF IsInstance(ex, "HTTPStatus") THEN
        Outcome(<<>>, "raise", ex, params)
    ELSE
        Outcome(<<[level |-> "fatal", extra |-> params]>>,
                "raise", HTTPInternalServerError(ex), params)

\* error_handler with a suppressed error dropped (return in place of raise).
error_handler_SwallowsSuppressed(only_500, ex, params) ==
    IF IsInstance(ex, "HTTPStatus") THEN
        Outcome(<<>>, "raise", ex, params)
    ELSE IF IsInstance(ex, "HTTPError") THEN
        IF only_500 /\ CodeOr500(ex) < 500 THEN
            Outcome(<<>>, "return", None, params)
        ELSE
            Outcome(<<[level |-> Level(CodeOr500(ex)),
                       extra |-> Update(ex.dict, params)]>>,
                    "raise", ex, params)
    ELSE
        Outcome(<<[level |-> "fatal", extra |-> params]>>,
                "raise", HTTPInternalServerError(ex), params)

\* error_handler building extra in the params mapping itself
\* (params.update(ex.to_dict()); extra = params).
error_handler_MutatesParams(only_500, ex, params) ==
    IF IsInstance(ex, "HTTPStatus") THEN
        Outcome(<<>>, "raise", ex, params)
    ELSE IF IsInstance(ex, "HTTPError") THEN
        IF only_500 /\ CodeOr500(ex) < 500 THEN
            Outcome(<<>>, "raise", ex, params)
        ELSE
            Outcome(<<[level |-> Level(CodeOr500(ex)),
                       extra |-> Update(params, ex.dict)]>>,
                    "raise", ex, Update(params, ex.dict))
    ELSE
        Outcome(<<[level |-> "fatal", extra |-> params]>>,
                "raise", HTTPInternalServerError(ex), params)

error_handler(only_500, ex, params) ==
    IF IsInstance(ex, "HTTPStatus") THEN
        Outcome(<<>>, "raise", ex, params)
    ELSE IF IsInstance(ex, "HTTPError") THEN
        IF only_500 /\ CodeOr500(ex) < 500 THEN
            Outcome(<<>>, "raise", ex, params)
        ELSE
            Outcome(<<[level |-> Level(CodeOr500(ex)),
                       extra |-> Update(ex.dict, params)]>>,
                    "raise", ex, params)
    ELSE
        Outcome(<<[level |-> "fatal", extra |-> params]>>,
                "raise", HTTPInternalServerError(ex), params)

(***************************************************************************)
(* The context store: Sentry.client.context, the raven client's context.   *)
(* Its data maps "user", "tags", "extra" and "request" to mappings; a key  *)
(* that was never merged is absent.                                        *)
(***************************************************************************)
\* context.merge({key: value}): "tags" and "extra" are merged key by key into
\* what is stored, any other key is replaced.
Merge(ctx, key, value) ==
    LET new == IF key \in {"tags", "extra"} /\ key \in DOMAIN ctx
               THEN Update(ctx[key], value)
               ELSE value
    IN  [k \in (DOMAIN ctx) \cup {key} |-> IF k = key THEN new ELSE ctx[k]]

\* Sentry.user_context(data)
user_context(ctx, data) == Merge(ctx, "user", data)

\* Sentry.tags_context(tags)
tags_context(ctx, tags) == Merge(ctx, "tags", tags)

\* Sentry.extra_context(data)
extra_context(ctx, data) == Merge(ctx, "extra", data)

\* http_context storing data in place of the request context stored so far.
http_context_Replaces(ctx, data) == Merge(ctx, "request", data)

\* Sentry.http_context(data): data is merged into the request context stored
\* so far ({} when there is none) and the result stored back.
http_context(ctx, data) ==
    LET req_context == IF "request" \in DOMAIN ctx THEN ctx["request"]
                       ELSE EmptyDict
    IN  Merge(ctx, "request", Update(req_context, data))

(***************************************************************************)
(* Requests and the pluggable context loaders.                             *)
(***************************************************************************)
Request(path, template, method, query, user, payload) ==
    [protocol |-> "http", host |-> "api.test", path |-> path,
     query_string |-> query, params |-> [q |-> query],
     headers |-> [ACCEPT |-> "*/*"], uri_template |-> template,
     method |-> method,
     env |-> [REMOTE_ADDR |-> "10.0.0.1", SERVER_NAME |-> "api",
              PATH_INFO |-> path],
     user |-> user, payload |-> payload]

Requests ==
    { Request("/widgets/42", "/widgets/{id}", "GET", "full=1", "alice", ""),
      Request("/login", "/login", "POST", "", "bob", "secret") }

\* raven.utils.wsgi.get_environ: the environment keys that are reported.
get_environ(env) ==
    [k \in (DOMAIN env) \cap {"REMOTE_ADDR", "SERVER_NAME", "SERVER_PORT"}
        |-> env[k]]

\* SentryMiddleware.get_request_context(req)
get_request_context(req) ==
    [url |-> req.protocol \o "://" \o req.host \o req.path,
     query_string |-> req.query_string,
     params |-> req.params,
     headers |-> req.headers,
     route |-> req.uri_template,
     method |-> req.method,
     env |-> get_environ(req.env)]

\* A loader is None, or a function of the request: "user" loaders return the
\* request's user mapping, "body" loaders its body mapping; a "_raises" loader
\* raises instead of returning.
UserLoaders == {None, "user_ok", "user_raises"}
BodyLoaders == {None, "body_ok", "body_raises"}

LoaderRaises(loader) == loader \in {"user_raises", "body_raises"}

LoaderResult(loader, req) ==
    IF loader = "user_ok" THEN [id |-> req.user]
    ELSE [raw |-> req.payload]

LoaderError(loader) == "error in " \o loader

\* SentryMiddleware.__init__(self, client, user_context_loader=None,
\*                           body_context_loader=None)
SentryMiddleware(client, user_loader, body_loader) ==
    [client |-> client,
     body_context_loader |-> body_loader,
     user_context_loader |-> user_loader]

\* Sentry.middleware: the positional arguments are the body loader, then the
\* user loader.
middleware == SentryMiddleware("self", body_context_loader, user_context_loader)

\* The middleware the application registered: sentry.middleware, or one it
\* built itself as SentryMiddleware(sentry, user_context_loader=...,
\* body_context_loader=...) from the same loaders.
registered ==
    IF built_by = "Sentry.middleware" THEN middleware
    ELSE SentryMiddleware("self", user_context_loader, body_context_loader)

\* SentryMiddleware.process_request(req): the context and the log it leaves.
\* First try block: the request context, the body loader, http_context.
ProcessRequestHttp(mw, ctx, req) ==
    LET req_context == get_request_context(req)
        loader == mw.body_context_loader
    IN  IF Truthy(loader) THEN
            IF LoaderRaises(loader) THEN
                [context |-> ctx, logged |-> <<LoaderError(loader)>>,
                 http_data |-> <<>>, exit |-> "return"]
            ELSE
                LET with_body == Update(req_context,
                                   [body |-> LoaderResult(loader, req)])
                IN  [context |-> http_context(ctx, with_body),
                     logged |-> <<>>,
                     http_data |-> <<with_body>>, exit |-> "return"]
        ELSE [context |-> http_context(ctx, req_context), logged |-> <<>>,
              http_data |-> <<req_context>>, exit |-> "return"]

\* The second block without its try/except: the loader's exception propagates.
ProcessRequestUser_NoTry(mw, ctx, req) ==
    LET loader == mw.user_context_loader
    IN  IF Truthy(loader) THEN
            IF LoaderRaises(loader) THEN
                [context |-> ctx, logged |-> <<>>, exit |-> "raise"]
            ELSE
                [context |-> user_context(ctx, LoaderResult(loader, req)),
                 logged |-> <<>>, exit |-> "return"]
        ELSE [context |-> ctx, logged |-> <<>>, exit |-> "return"]

\* Second try block: the user loader, user_context.
ProcessRequestUser(mw, ctx, req) ==
    LET loader == mw.user_context_loader
    IN  IF Truthy(loader) THEN
            IF LoaderRaises(loader) THEN
                [context |-> ctx, logged |-> <<LoaderError(loader)>>,
                 exit |-> "return"]
            ELSE
                [context |-> user_context(ctx, LoaderResult(loader, req)),
                 logged |-> <<>>, exit |-> "return"]
        ELSE [context |-> ctx, logged |-> <<>>, exit |-> "return"]

\* The second block runs only when the first one did not raise; exit is how
\* process_request ends ("return", or "raise" with an exception propagating).
process_request(mw, ctx, req) ==
    LET first == ProcessRequestHttp(mw, ctx, req)
        second == IF first.exit = "return"
                  THEN ProcessRequestUser(mw, first.context, req)
                  ELSE [context |-> first.context, logged |-> <<>>,
                        exit |-> "raise"]
    IN  [context |-> second.context,
         logged |-> first.logged \o second.logged,
         http_data |-> first.http_data,
         exit |-> second.exit]

\* The last two entries of the http_context call history.
LastTwo(calls) ==
    IF Len(calls) <= 2 THEN calls ELSE SubSeq(calls, Len(calls) - 1, Len(calls))

(***************************************************************************)
(* The reporting transport (the raven client's capture calls): it returns  *)
(* the new event's id, or None when it records nothing.  A failing         *)
(* transport may also raise out of the call.                               *)
(***************************************************************************)
\* The id of the next event captured during this request.
NextEventId == "e" \o ToString(reqno) \o "." \o ToString(Len(captures) + 1)

\* The call raised instead of returning.
Raises == "<raises>"

\* The exception a failing transport raises.
TransportFailure ==
    Exc("t1", "TransportError", {}, NoCode, EmptyDict, <<"send failed">>)

TransportResults ==
    {NextEventId, None} \cup (IF transport = "failing" THEN {Raises} ELSE {})

\* A capture call: result is what the transport's call did, returned what the
\* caller of the capture operation got (Raises: an exception).
Captured(via, level, extra, result, returned) ==
    [via |-> via, level |-> level, extra |-> extra, result |-> result,
     returned |-> returned]

\* A capture wrapper that keeps the first event id of the request.
captureException_KeepsFirst(result) ==
    IF result = Raises
    THEN [last_event_id |-> last_event_id, returned |-> Raises]
    ELSE [last_event_id |->
              IF last_event_id \in {Unset, None} THEN result
              ELSE last_event_id,
          returned |-> result]

\* Sentry.captureException(*args, **kwargs), given what
\* self.client.captureException did: the value last_event_id has afterwards
\* and what the caller gets.  Nothing catches an exception of the transport.
captureException(result) ==
    IF result = Raises
    THEN [last_event_id |-> last_event_id, returned |-> Raises]
    ELSE [last_event_id |-> result, returned |-> result]

\* Sentry.captureMessage(*args, **kwargs)
captureMessage(result) ==
    IF result = Raises
    THEN [last_event_id |-> last_event_id, returned |-> Raises]
    ELSE [last_event_id |-> result, returned |-> result]

(***************************************************************************)
(* Requests in flight on concurrent threads that share the Sentry object.  *)
(* Each thread has its own response object and, the raven context being a  *)
(* threading.local, its own context data; last_event_id is an attribute of *)
(* the shared Sentry object.                                               *)
(***************************************************************************)
Threads == {"A", "B"}

\* at: where the thread is; headers: its response's headers; context: its
\* context data; events: what its captures returned; exit: how its
\* process_response ended.
NotStarted ==
    [at |-> "IDLE", headers |-> EmptyDict, context |-> EmptyDict,
     events |-> <<>>, exit |-> "pending"]

ThreadEventId(t) ==
    "e" \o t \o "." \o ToString(Len(inflight[t].events) + 1)

(***************************************************************************)
(* The state after construction: Sentry.__init__ stores the loaders and    *)
(* the client, whose context is empty.  It does not assign last_event_id.  *)
(***************************************************************************)
Pending == [exit |-> "pending", clears |-> 0]

Constructed ==
    /\ user_context_loader \in UserLoaders
    /\ body_context_loader \in BodyLoaders
    /\ context = EmptyDict
    /\ last_event_id = Unset
    /\ pc = "IDLE"
    /\ reqno = 0
    /\ ncalls = 0
    /\ resp_headers = EmptyDict
    /\ captures = <<>>
    /\ handled = <<>>
    /\ logged = <<>>
    /\ responded = Pending
    /\ http_calls = <<>>
    /\ inflight = [t \in Threads |-> NotStarted]

\* The client honours its interface: a capture returns an event id or None.
Init ==
    /\ transport = "reliable"
    /\ built_by = "Sentry.middleware"
    /\ Constructed

\* The client's capture calls may raise.
InitFailingTransport ==
    /\ transport = "failing"
    /\ built_by = "Sentry.middleware"
    /\ Constructed

\* The application built the middleware itself, with keyword arguments.
InitDirectMiddleware ==
    /\ transport = "reliable"
    /\ built_by = "SentryMiddleware"
    /\ Constructed

config == <<user_context_loader, body_context_loader, built_by, transport>>

\* The framework calls SentryMiddleware.process_request for a new request,
\* with a new response object.
ProcessRequest ==
    /\ pc = "IDLE"
    /\ reqno < MaxRequests
    /\ \E req \in Requests :
         LET r == process_request(registered, context, req)
         IN  /\ context' = r.context
             /\ logged' = r.logged
             /\ http_calls' = LastTwo(http_calls \o r.http_data)
             /\ pc' = IF r.exit = "return" THEN "HANDLING" ELSE "FAILED"
    /\ reqno' = reqno + 1
    /\ resp_headers' = EmptyDict
    /\ captures' = <<>>
    /\ handled' = <<>>
    /\ responded' = Pending
    /\ UNCHANGED <<config, inflight, last_event_id, ncalls>>

\* What the application's handler may call on the Sentry object while it runs.
AppCall ==
    /\ pc = "HANDLING"
    /\ ncalls < MaxCalls
    /\ ncalls' = ncalls + 1

UserData == { [id |-> "1"] }
TagsData == { [env |-> "prod"], [release |-> "1.0"] }
ExtraData == { [debug |-> "yes"] }
HttpData == { [a |-> "1"], [b |-> "2"], [a |-> "3", route |-> "/other"] }

UserContext ==
    /\ AppCall
    /\ \E data \in UserData : context' = user_context(context, data)
    /\ UNCHANGED <<config, inflight, http_calls, last_event_id, pc, reqno,
                   resp_headers, captures, handled, logged, responded>>

TagsContext ==
    /\ AppCall
    /\ \E tags \in TagsData : context' = tags_context(context, tags)
    /\ UNCHANGED <<config, inflight, http_calls, last_event_id, pc, reqno,
                   resp_headers, captures, handled, logged, responded>>

ExtraContext ==
    /\ AppCall
    /\ \E data \in ExtraData : context' = extra_context(context, data)
    /\ UNCHANGED <<config, inflight, http_calls, last_event_id, pc, reqno,
                   resp_headers, captures, handled, logged, responded>>

HttpContext ==
    /\ AppCall
    /\ \E data \in HttpData :
         /\ context' = http_context(context, data)
         /\ http_calls' = LastTwo(Append(http_calls, data))
    /\ UNCHANGED <<config, inflight, last_event_id, pc, reqno, resp_headers,
                   captures, handled, logged, responded>>

\* Sentry.captureException(): the transport's result is stored and returned.
CaptureException ==
    /\ AppCall
    /\ \E result \in TransportResults :
         LET r == captureException(result)
         IN  /\ captures' = Append(captures,
                    Captured("Sentry.captureException", None, EmptyDict,
                             result, r.returned))
             /\ last_event_id' = r.last_event_id
    /\ UNCHANGED <<config, inflight, http_calls, context, pc, reqno,
                   resp_headers, handled, logged, responded>>

\* Sentry.captureMessage(message)
CaptureMessage ==
    /\ AppCall
    /\ \E result \in TransportResults :
         LET r == captureMessage(result)
         IN  /\ captures' = Append(captures,
                    Captured("Sentry.captureMessage", None, EmptyDict,
                             result, r.returned))
             /\ last_event_id' = r.last_event_id
    /\ UNCHANGED <<config, inflight, http_calls, context, pc, reqno,
                   resp_headers, handled, logged, responded>>

\* Sentry.clear_context()
clear_context_context == EmptyDict
clear_context_last_event_id == None

ClearContext ==
    /\ AppCall
    /\ context' = clear_context_context
    /\ last_event_id' = clear_context_last_event_id
    /\ http_calls' = <<>>
    /\ UNCHANGED <<config, inflight, pc, reqno, resp_headers, captures,
                   handled, logged, responded>>

\* The application's handler raised ex and the framework calls the error
\* handler built by get_error_handler(only_500).  Its capture goes to
\* self.client.captureException, the transport: the result is not stored, and
\* when that call raises its exception leaves the handler in place of
\* raise_exc.
ErrorHandler ==
    /\ pc = "HANDLING"
    /\ ncalls <= MaxCallsBeforeError
    /\ \E only_500 \in BOOLEAN, ex \in Errors, params \in RouteParams,
          result \in TransportResults :
         LET o == error_handler(only_500, ex, params)
         IN  /\ captures' = captures \o
                    [i \in 1..Len(o.calls) |->
                        Captured("error_handler", o.calls[i].level,
                                 o.calls[i].extra, result, result)]
             /\ handled' = <<[only_500 |-> only_500, ex |-> ex,
                              params |-> params, exit |-> o.exit,
                              exc |-> IF o.calls # <<>> /\ result = Raises
                                      THEN TransportFailure ELSE o.exc,
                              params_after |-> o.params]>>
    /\ pc' = "RESPONDING"
    /\ UNCHANGED <<config, inflight, http_calls, context, last_event_id,
                   reqno, ncalls, resp_headers, logged, responded>>

\* The application's handler returned normally.
HandlerReturns ==
    /\ pc = "HANDLING"
    /\ pc' = "RESPONDING"
    /\ UNCHANGED <<config, inflight, http_calls, context, last_event_id,
                   reqno, ncalls, resp_headers, captures, handled, logged,
                   responded>>

\* SentryMiddleware.process_response(req, resp): reading an unassigned
\* last_event_id raises AttributeError before anything else is done.
ProcessResponse ==
    /\ pc = "RESPONDING"
    /\ IF last_event_id = Unset THEN
            /\ responded' = [exit |-> "AttributeError", clears |-> 0]
            /\ UNCHANGED <<context, last_event_id, resp_headers,
                           http_calls>>
       ELSE
            /\ resp_headers' =
                 IF Truthy(last_event_id)
                 THEN Update(resp_headers, [XSentryID |-> last_event_id])
                 ELSE resp_headers
            /\ context' = clear_context_context
            /\ last_event_id' = clear_context_last_event_id
            /\ responded' = [exit |-> "return", clears |-> 1]
            /\ http_calls' = <<>>
    /\ pc' = "IDLE"
    /\ UNCHANGED <<config, inflight, reqno, ncalls, captures, handled,
                   logged>>

Next ==
    \/ ProcessRequest
    \/ UserContext
    \/ TagsContext
    \/ ExtraContext
    \/ HttpContext
    \/ CaptureException
    \/ CaptureMessage
    \/ ClearContext
    \/ ErrorHandler
    \/ HandlerReturns
    \/ ProcessResponse

Spec == Init /\ [][Next]_vars

(***************************************************************************)
(* Two requests served concurrently, one per thread, process_response      *)
(* taken statement by statement.                                           *)
(***************************************************************************)
sequential ==
    <<context, pc, reqno, ncalls, resp_headers, captures, handled, logged,
      responded, http_calls>>

\* process_request on thread t.
ThreadProcessRequest(t) ==
    /\ inflight[t].at = "IDLE"
    /\ \E req \in Requests :
         inflight' = [inflight EXCEPT
             ![t].at = "HANDLING",
             ![t].context =
                 process_request(registered, inflight[t].context, req).context]
    /\ UNCHANGED <<config, sequential, last_event_id>>

\* The handler running on thread t calls Sentry.captureException().
ThreadCapture(t) ==
    /\ inflight[t].at = "HANDLING"
    /\ Len(inflight[t].events) < MaxThreadCaptures
    /\ \E result \in {ThreadEventId(t), None} :
         /\ last_event_id' = captureException(result).last_event_id
         /\ inflight' = [inflight EXCEPT
                ![t].events = Append(@, captureException(result).returned)]
    /\ UNCHANGED <<config, sequential>>

\* process_response on thread t, line 178: if self.client.last_event_id
ThreadTestEventId(t) ==
    /\ inflight[t].at = "HANDLING"
    /\ inflight' = [inflight EXCEPT
           ![t].at = IF last_event_id = Unset THEN "DONE"
                     ELSE IF Truthy(last_event_id) THEN "SET_HEADER"
                     ELSE "CLEAR",
           ![t].exit = IF last_event_id = Unset THEN "AttributeError" ELSE @]
    /\ UNCHANGED <<config, sequential, last_event_id>>

\* line 179: resp.headers['X-Sentry-ID'] = self.client.last_event_id
ThreadSetHeader(t) ==
    /\ inflight[t].at = "SET_HEADER"
    /\ inflight' = [inflight EXCEPT
           ![t].at = "CLEAR",
           ![t].headers = Update(@, [XSentryID |-> last_event_id])]
    /\ UNCHANGED <<config, sequential, last_event_id>>

\* line 180: self.client.clear_context()
ThreadClearContext(t) ==
    /\ inflight[t].at = "CLEAR"
    /\ inflight' = [inflight EXCEPT
           ![t].at = "DONE",
           ![t].exit = "return",
           ![t].context = clear_context_context]
    /\ last_event_id' = clear_context_last_event_id
    /\ UNCHANGED <<config, sequential>>

NextConcurrent ==
    \E t \in Threads :
        \/ ThreadProcessRequest(t)
        \/ ThreadCapture(t)
        \/ ThreadTestEventId(t)
        \/ ThreadSetHeader(t)
        \/ ThreadClearContext(t)

SpecConcurrent == Init /\ [][NextConcurrent]_vars

\* The same program over a client whose capture calls may raise.
SpecFailingTransport == InitFailingTransport /\ [][Next]_vars

\* The same program with the middleware built by the application.
SpecDirectMiddleware == InitDirectMiddleware /\ [][Next]_vars

(***************************************************************************)
(* Properties.                                                             *)
(***************************************************************************)
\* A request has been served: process_response has run for it.
Served == pc = "IDLE" /\ reqno >= 1

\* The error handler has been called during the current request.
Handled == handled # <<>>

\* The capture calls the error handler made during the current request.
HandlerCaptures == SelectSeq(captures, LAMBDA c : c.via = "error_handler")

\* The kinds of error, in the order the classification is specified.
IsSignal(ex) == "HTTPStatus" \in ex.bases
IsHTTPErrorKind(ex) == "HTTPError" \in ex.bases /\ ~IsSignal(ex)
IsUnclassified(ex) == ex.bases = {}

\* The code of an HTTP error: its own, or 500 when it carries none.
CodeOf(ex) == IF ex.code \in {<<>>, <<0>>} THEN 500 ELSE ex.code[1]

\* The HTTP error is reported (not suppressed) by a handler built with o5.
IsReported(ex, o5) == IsHTTPErrorKind(ex) /\ ~(o5 /\ CodeOf(ex) < 500)

\* The id of the last event captured during the current request, None when
\* there is none.
RECURSIVE LastEvent(_)
LastEvent(cs) ==
    IF cs = <<>> THEN None
    ELSE IF cs[Len(cs)].result # None THEN cs[Len(cs)].result
    ELSE LastEvent(SubSeq(cs, 1, Len(cs) - 1))

\* C1: between requests, once a request has been served, the context store is
\* empty and last_event_id is null, so nothing set during request N is
\* visible to request N+1, whether or not request N raised an error.
C1_NoLeakAcrossRequests ==
    Served => context = EmptyDict /\ last_event_id = None

\* C2: process_response calls clear_context() exactly once, whether or not an
\* error occurred, and after it the context store is empty and last_event_id
\* is null.
C2_ClearOncePerResponse ==
    Served =>
        /\ responded.clears = 1
        /\ context = EmptyDict
        /\ last_event_id = None

\* C3: when the error handler reports an error, the event id its
\* captureException call returned is stored as last_event_id, and the
\* process_response that follows sets X-Sentry-ID to that id.
C3_HandlerEventIdReachesHeader ==
    \A i \in 1..Len(HandlerCaptures) :
        HandlerCaptures[i].result # None =>
            /\ pc = "RESPONDING" => last_event_id = HandlerCaptures[i].result
            /\ pc = "IDLE" =>
                   /\ "XSentryID" \in DOMAIN resp_headers
                   /\ resp_headers["XSentryID"] = HandlerCaptures[i].result

\* C4: a response carries X-Sentry-ID only when an event was captured during
\* its request, and then the header's value is the id of the last event
\* captured during that request.
C4_HeaderOnlyForEventOfRequest ==
    Served =>
        /\ captures = <<>> => "XSentryID" \notin DOMAIN resp_headers
        /\ "XSentryID" \in DOMAIN resp_headers =>
               resp_headers["XSentryID"] = LastEvent(captures)

\* C5: for an HTTP error with code in 400..499 and only_500 = TRUE, the error
\* handler makes no capture call and re-raises the original error unchanged.
C5_ClientErrorsSuppressed ==
    Handled =>
        LET h == handled[1] IN
        (h.only_500 /\ IsHTTPErrorKind(h.ex) /\ h.ex.code # <<>>
            /\ h.ex.code[1] \in 400..499) =>
                /\ HandlerCaptures = <<>>
                /\ h.exit = "raise"
                /\ h.exc = h.ex

C5_Witness ==
    /\ Handled
    /\ handled[1].only_500
    /\ handled[1].ex.id = "h4"
    /\ handled[1].exit = "raise"

\* C6: a reported HTTP error is captured at level "errors" exactly when its
\* code (500 when it carries none) is below 500 and at "fatal" exactly when it
\* is 500 or more; with a code of 500 or more it is reported at "fatal"
\* whatever only_500 is.
C6_SeverityFromCode ==
    Handled =>
        LET h == handled[1] IN
        IsHTTPErrorKind(h.ex) =>
            /\ \A i \in 1..Len(HandlerCaptures) :
                   /\ HandlerCaptures[i].level = "errors" <=> CodeOf(h.ex) < 500
                   /\ HandlerCaptures[i].level = "fatal" <=> CodeOf(h.ex) >= 500
            /\ CodeOf(h.ex) >= 500 =>
                   /\ Len(HandlerCaptures) = 1
                   /\ HandlerCaptures[1].level = "fatal"

C6_Witness ==
    /\ Handled
    /\ handled[1].only_500
    /\ handled[1].ex.id = "h6"
    /\ Len(HandlerCaptures) = 1
    /\ HandlerCaptures[1].level = "fatal"

\* C7: for a reported HTTP error captureException is invoked exactly once,
\* with extra = the error's to_dict() fields merged with the route params
\* (the route param wins on a shared key), and the original error is
\* re-raised unchanged; a 404 with to_dict() = {title: Not Found} on params
\* {id: 42} and only_500 = FALSE gives level "errors" and
\* extra = {title: Not Found, id: 42}.
C7_ExtraIsDictMergedWithParams ==
    Handled =>
        LET h == handled[1] IN
        IsReported(h.ex, h.only_500) =>
            /\ Len(HandlerCaptures) = 1
            /\ LET extra == HandlerCaptures[1].extra IN
               /\ DOMAIN extra = (DOMAIN h.ex.dict) \cup (DOMAIN h.params)
               /\ \A k \in DOMAIN h.params : extra[k] = h.params[k]
               /\ \A k \in (DOMAIN h.ex.dict) \ (DOMAIN h.params) :
                      extra[k] = h.ex.dict[k]
            /\ h.exit = "raise"
            /\ h.exc = h.ex
            /\ (h.ex.id = "h4" /\ h.params = [id |-> "42"]) =>
                   /\ HandlerCaptures[1].level = "errors"
                   /\ HandlerCaptures[1].extra =
                          [title |-> "Not Found", id |-> "42"]

C7_Witness ==
    /\ Handled
    /\ ~handled[1].only_500
    /\ handled[1].ex.id = "h5"
    /\ handled[1].params = [id |-> "42", title |-> "widgets"]
    /\ Len(HandlerCaptures) = 1
    /\ HandlerCaptures[1].extra = [id |-> "42", title |-> "widgets"]

\* C8: for a control-flow status signal the error handler makes no capture
\* call and re-raises the identical object, for both values of only_500, and
\* the signal test comes first: it decides also for an object that is an
\* HTTP error as well.
C8_SignalsPassThrough ==
    Handled =>
        LET h == handled[1] IN
        IsSignal(h.ex) =>
            /\ HandlerCaptures = <<>>
            /\ h.exit = "raise"
            /\ h.exc = h.ex

C8_Witness ==
    /\ Handled
    /\ ~handled[1].only_500
    /\ handled[1].ex.id = "s2"
    /\ handled[1].exc.id = "s2"

\* C9: for an unclassified error exactly one capture call is made, with level
\* "fatal" and extra = the route params only; the error re-raised is not the
\* original but a new HTTPInternalServerError (500 Internal Server Error)
\* whose description is str(original), for both values of only_500.
C9_UnclassifiedReplaced ==
    Handled =>
        LET h == handled[1] IN
        IsUnclassified(h.ex) =>
            /\ Len(HandlerCaptures) = 1
            /\ HandlerCaptures[1].level = "fatal"
            /\ HandlerCaptures[1].extra = h.params
            /\ h.exit = "raise"
            /\ h.exc.id # h.ex.id
            /\ h.exc.cls = "HTTPInternalServerError"
            /\ h.exc.bases = {"HTTPError"}
            /\ Len(h.ex.args) = 1 => h.exc.dict.description = h.ex.args[1]
            /\ h.ex.id = "v1" => h.exc.dict.description = "boom"
            /\ h.ex.id = "v2" => h.exc.dict.description = ""
            /\ h.ex.id = "v3" =>
                   h.exc.dict.description = "('2', 'No such file')"

C9_Witness ==
    /\ Handled
    /\ handled[1].only_500
    /\ handled[1].ex.id = "v1"
    /\ handled[1].exc.cls = "HTTPInternalServerError"
    /\ Len(HandlerCaptures) = 1

\* C10: every call of the error handler ends by raising, either the original
\* error or (for an unclassified error only) its generic replacement, and it
\* writes nothing to the response.
C10_HandlerAlwaysRaises ==
    Handled =>
        LET h == handled[1] IN
        /\ h.exit = "raise"
        /\ \/ h.exc = h.ex
           \/ /\ IsUnclassified(h.ex)
              /\ h.exc.cls = "HTTPInternalServerError"
              /\ h.exc.id # h.ex.id
        /\ pc = "RESPONDING" => resp_headers = EmptyDict

C10_Witness ==
    /\ Handled
    /\ pc = "RESPONDING"
    /\ handled[1].only_500
    /\ handled[1].ex.id = "h3"
    /\ handled[1].exit = "raise"
    /\ captures = <<>>

\* C11: http_context merges additively: after http_context(d1) followed by
\* http_context(d2) with no clear_context between them the stored request
\* context holds every key of d1 and of d2, with d2's value on the keys in
\* both ({a: 1} then {b: 2} gives a = 1 and b = 2).
C11_HttpContextAdditive ==
    Len(http_calls) = 2 =>
        LET d1 == http_calls[1]
            d2 == http_calls[2]
        IN  /\ "request" \in DOMAIN context
            /\ (DOMAIN d1) \cup (DOMAIN d2) \subseteq DOMAIN context["request"]
            /\ \A k \in DOMAIN d2 : context["request"][k] = d2[k]
            /\ \A k \in (DOMAIN d1) \ (DOMAIN d2) :
                   context["request"][k] = d1[k]

C11_Witness ==
    /\ Len(http_calls) = 2
    /\ DOMAIN http_calls[1] = {"a"}
    /\ http_calls[1]["a"] = "1"
    /\ DOMAIN http_calls[2] = {"b"}
    /\ http_calls[2]["b"] = "2"
    /\ {"a", "b"} \subseteq DOMAIN context["request"]
    /\ context["request"]["a"] = "1"
    /\ context["request"]["b"] = "2"

\* The loaders the Sentry object was configured with that raise when called.
RaisingLoaders ==
    {user_context_loader, body_context_loader}
        \cap {"user_raises", "body_raises"}

\* C12: loader failures are non-fatal: process_request never raises when the
\* body loader, the user loader or both raise; each exception is logged
\* through the client's logger and the request goes on to be handled.
C12_LoaderFailuresNonFatal ==
    reqno >= 1 =>
        /\ pc # "FAILED"
        /\ Len(logged) = Cardinality(RaisingLoaders)
        /\ \A l \in RaisingLoaders :
               \E i \in 1..Len(logged) : logged[i] = "error in " \o l

C12_Witness ==
    /\ pc = "HANDLING"
    /\ user_context_loader = "user_raises"
    /\ body_context_loader = "body_raises"
    /\ Len(logged) = 2

\* The capture operations of the Sentry object.
SentryCaptures == {"Sentry.captureException", "Sentry.captureMessage"}

\* C13: every call of Sentry.captureException or Sentry.captureMessage sets
\* last_event_id to the event id the transport returned and returns that same
\* id, so after several captures last_event_id is the most recent one's id.
C13_CaptureSetsLastEventId ==
    [][(/\ Len(captures') = Len(captures) + 1
        /\ captures'[Len(captures')].via \in SentryCaptures)
       => /\ last_event_id' = captures'[Len(captures')].result
          /\ captures'[Len(captures')].returned =
                 captures'[Len(captures')].result]_vars

C13_Witness ==
    /\ pc = "HANDLING"
    /\ Len(captures) = 2
    /\ captures[1].via = "Sentry.captureException"
    /\ captures[2].via = "Sentry.captureMessage"
    /\ captures[1].result # None
    /\ captures[2].result # None
    /\ captures[1].result # captures[2].result
    /\ last_event_id = captures[2].result

\* C14: when the transport fails during a capture, the capture operation does
\* not raise and returns null, and the error handler still re-raises the
\* application error (the original or its replacement), not the failure.
C14_TransportFailureContained ==
    /\ \A i \in 1..Len(captures) :
           (captures[i].result = Raises /\ captures[i].via \in SentryCaptures)
               => captures[i].returned = None
    /\ Handled =>
           /\ handled[1].exit = "raise"
           /\ \/ handled[1].exc = handled[1].ex
              \/ /\ IsUnclassified(handled[1].ex)
                 /\ handled[1].exc.cls = "HTTPInternalServerError"

\* C15: with two requests in flight on one shared Sentry object the last
\* event id is request-scoped: a response carries X-Sentry-ID only with an id
\* captured during its own request, and a request whose last capture
\* returned an id finds it in its response (no other request's
\* process_response erased it first).
C15_EventIdRequestScoped ==
    \A t \in Threads :
        LET r == inflight[t] IN
        /\ "XSentryID" \in DOMAIN r.headers =>
               \E i \in 1..Len(r.events) : r.events[i] = r.headers["XSentryID"]
        /\ (r.at = "DONE" /\ r.events # <<>>
               /\ r.events[Len(r.events)] # None) =>
               /\ "XSentryID" \in DOMAIN r.headers
               /\ r.headers["XSentryID"] = r.events[Len(r.events)]

\* C16: context release is guaranteed on every exit path of
\* process_response: when it ends by raising, clear_context() has still run,
\* so the context store is empty and last_event_id is null afterwards.
C16_ReleaseOnEveryExit ==
    (Served /\ responded.exit # "return") =>
        /\ responded.clears = 1
        /\ context = EmptyDict
        /\ last_event_id = None

\* C17: process_request attaches the request context (url, query_string,
\* params, headers, route, method, env) to the http context whether or not
\* the body loader succeeds: after it the stored request context holds the
\* request's fields.
C17_RequestContextAlwaysAttached ==
    [][reqno' = reqno + 1 =>
          \E req \in Requests :
              /\ "request" \in DOMAIN context'
              /\ {"url", "query_string", "params", "headers", "route",
                  "method", "env"} \subseteq DOMAIN context'["request"]
              /\ context'["request"]["url"] =
                     get_request_context(req)["url"]
              /\ context'["request"]["method"] = req.method
              /\ context'["request"]["route"] = req.uri_template]_vars

\* C18: with Sentry built with user_context_loader = U and
\* body_context_loader = B, process_request of Sentry.middleware passes
\* U(req) to user_context and stores B(req) under the body key of the http
\* context; a loader that is not configured populates nothing.
C18_LoadersReachTheirContext ==
    [][reqno' = reqno + 1 =>
          \E req \in Requests :
              /\ user_context_loader = "user_ok" =>
                     /\ "user" \in DOMAIN context'
                     /\ context'["user"] = [id |-> req.user]
              /\ body_context_loader = "body_ok" =>
                     /\ "request" \in DOMAIN context'
                     /\ "body" \in DOMAIN context'["request"]
                     /\ context'["request"]["body"] = [raw |-> req.payload]
              /\ (user_context_loader = None /\ "user" \notin DOMAIN context)
                     => "user" \notin DOMAIN context'
              /\ (body_context_loader = None /\ "request" \notin DOMAIN context
                     /\ "request" \in DOMAIN context')
                     => "body" \notin DOMAIN context'["request"]]_vars

\* C19: a call of the error handler leaves the route params mapping passed to
\* it unchanged (extra is a separate mapping) and leaves the context store
\* unchanged, for every kind of error.
C19_HandlerLeavesInputsAlone ==
    [][(handled = <<>> /\ handled' # <<>>) =>
          /\ handled'[1].params_after = handled'[1].params
          /\ context' = context]_vars

C19_Witness ==
    /\ Handled
    /\ pc = "RESPONDING"
    /\ handled[1].ex.id = "h6"
    /\ handled[1].params = [id |-> "42"]
    /\ handled[1].params_after = [id |-> "42"]
    /\ Len(HandlerCaptures) = 1
    /\ HandlerCaptures[1].extra = [title |-> "Server Error", id |-> "42"]
    /\ "request" \in DOMAIN context

\* C20: last_event_id is defined (null or an event id) in every state from
\* construction on, so process_response completes without raising and
\* reaches clear_context also when nothing has assigned last_event_id yet.
C20_LastEventIdDefined ==
    /\ last_event_id # Unset
    /\ Served => /\ responded.exit = "return"
                 /\ responded.clears = 1

====
